---- MODULE Spec2Model ----
(***************************************************************************)
(* The five example workflows of langgraph_workflows (parallel, routing,   *)
(* orchestrator-worker, evaluator-optimizer, agent) run on the graph       *)
(* execution model of spec.md section 4.2.  Node functions, routers, state *)
(* schemas and graph wiring are translated from the Python sources; the    *)
(* engine (frontier steps, merge, route-map translation) is the external   *)
(* library and is modelled from the specification.  The LLM collaborator   *)
(* is a nondeterministic choice among small sets of responses, or failure. *)
(***************************************************************************)
EXTENDS Integers, Sequences, FiniteSets, TLC

VARIABLES wf, graph, state, frontier, results, status, outcome, executed, step

vars == <<wf, graph, state, frontier, results, status, outcome, executed, step>>

-----------------------------------------------------------------------------
(* Bounds of the model *)

\* longest plan (number of report sections) the planner LLM may return
MaxSections == 3
\* most generate_joke_node executions explored in one evaluator run
MaxJokeAttempts == 6
\* most agent_llm_call executions explored in one agent run
MaxAgentTurns == 2
\* most tool calls carried by one model response
MaxToolCalls == 2

-----------------------------------------------------------------------------
(* Values *)

\* Python's None
None == "None"
START == "__start__"
END == "__end__"

Workflows == {"parallel", "routing", "orchestrator", "evaluator", "agent"}

\* text contents an LLM call may return
Texts == {"t1", "t2"}

\* the answer of a failed LLM call (ServiceError raised by invoke)
LLMFailure == [error |-> TRUE]

RECURSIVE SeqsUpTo(_, _)
\* all sequences over S of length at most n
SeqsUpTo(S, n) ==
    IF n = 0 THEN {<<>>}
    ELSE LET shorter == SeqsUpTo(S, n - 1)
         IN  shorter \cup {Append(s, x) : s \in shorter, x \in S}

Range(s) == {s[i] : i \in 1..Len(s)}

\* sequences without repeated elements
DistinctSeqsUpTo(S, n) == {s \in SeqsUpTo(S, n) : Cardinality(Range(s)) = Len(s)}

RECURSIVE CountNode(_, _)
\* number of entries of the execution log that ran node n
CountNode(log, n) ==
    IF log = <<>> THEN 0
    ELSE (IF log[Len(log)].node = n THEN 1 ELSE 0)
         + CountNode(SubSeq(log, 1, Len(log) - 1), n)

-----------------------------------------------------------------------------
(* State schemas: field -> merge policy.  A TypedDict field declared       *)
(* without an Annotated reducer is a replace field.                        *)

\* the TypedDict declared without the joke field
ParallelWorkflowState_without_joke ==
    [topic |-> "replace", story |-> "replace",
     poem |-> "replace", combined_output |-> "replace"]

ParallelWorkflowState ==
    [topic |-> "replace", joke |-> "replace", story |-> "replace",
     poem |-> "replace", combined_output |-> "replace"]

RoutingWorkflowState ==
    [user_input |-> "replace", routing_decision |-> "replace",
     final_output |-> "replace"]

\* worker_outputs declared with the append policy (Annotated with operator.add)
OrchestratorWorkflowState_with_append ==
    [report_topic |-> "replace", planned_sections |-> "replace",
     worker_outputs |-> "append", final_report |-> "replace"]

OrchestratorWorkflowState ==
    [report_topic |-> "replace", planned_sections |-> "replace",
     worker_outputs |-> "replace", final_report |-> "replace"]

EvaluatorWorkflowState ==
    [report_topic |-> "replace", generated_joke |-> "replace",
     evaluation_feedback |-> "replace", joke_quality |-> "replace"]

AgentWorkflowState == [messages |-> "replace"]

Schema(w) ==
    CASE w = "parallel" -> ParallelWorkflowState
      [] w = "routing" -> RoutingWorkflowState
      [] w = "orchestrator" -> OrchestratorWorkflowState
      [] w = "evaluator" -> EvaluatorWorkflowState
      [] w = "agent" -> AgentWorkflowState

\* fields declared as lists; every other field is a str
ListFields == {"planned_sections", "worker_outputs", "messages"}

\* the zero value of a declared field
FieldDefault(f) == IF f \in ListFields THEN <<>> ELSE ""

-----------------------------------------------------------------------------
(* Node functions.  Each takes the State it is run on and the answer of    *)
(* the LLM call it makes (NoLLM for a node that makes none) and returns    *)
(* either its partial update, with the prompt it sent, or the error it     *)
(* raised.  No node catches an exception of its LLM call.                  *)

NoLLM == [error |-> FALSE]

Returned(update, prompt) == [ok |-> TRUE, update |-> update, prompt |-> prompt]
Raised(kind) == [ok |-> FALSE, error |-> kind]

(* parallel_workflow.py *)

parallel_generate_joke_output(s, resp) ==
    IF resp.error THEN Raised("ServiceError")
    ELSE Returned([joke |-> resp.content], "Write a joke about " \o s.topic)

parallel_generate_story_output(s, resp) ==
    IF resp.error THEN Raised("ServiceError")
    ELSE Returned([story |-> resp.content], "Write a story about " \o s.topic)

\* generate_poem_output returning its text under the key of the story
parallel_generate_poem_output_into_story(s, resp) ==
    IF resp.error THEN Raised("ServiceError")
    ELSE Returned([story |-> resp.content], "Write a poem about " \o s.topic)

parallel_generate_poem_output(s, resp) ==
    IF resp.error THEN Raised("ServiceError")
    ELSE Returned([poem |-> resp.content], "Write a poem about " \o s.topic)

\* the f-string of aggregate_outputs
CombinedText(topic, story, joke, poem) ==
    "Here is a combined output for the topic '" \o topic \o "':\n\n"
    \o "--- STORY ---\n" \o story \o "\n\n"
    \o "--- JOKE ---\n" \o joke \o "\n\n"
    \o "--- POEM ---\n" \o poem

aggregate_outputs(s, resp) ==
    Returned([combined_output |-> CombinedText(s.topic, s.story, s.joke, s.poem)],
             None)

(* routing_workflow.py *)

\* values of RouteOutput.step: the three literals, or the Field default None
RouteSteps == {"poem", "story", "joke", None}

route_input(s, resp) ==
    IF resp.error THEN Raised("ServiceError")
    ELSE Returned([routing_decision |-> resp.step], s.user_input)

routing_generate_story_output(s, resp) ==
    IF resp.error THEN Raised("ServiceError")
    ELSE Returned([final_output |-> resp.content],
                  "Write a story based on: " \o s.user_input)

routing_generate_joke_output(s, resp) ==
    IF resp.error THEN Raised("ServiceError")
    ELSE Returned([final_output |-> resp.content],
                  "Write a joke based on: " \o s.user_input)

routing_generate_poem_output(s, resp) ==
    IF resp.error THEN Raised("ServiceError")
    ELSE Returned([final_output |-> resp.content],
                  "Write a poem based on: " \o s.user_input)

(* evaluator_optimizer_workflow.py *)

\* grades the evaluator LLM may return: JokeFeedback.grade is any str
Grades == {"funny", "not funny", "meh"}
Feedbacks == {"", "fb"}

\* generate_joke_node sending the same prompt whatever the feedback
generate_joke_node_without_feedback(s, resp) ==
    IF resp.error THEN Raised("ServiceError")
    ELSE Returned([generated_joke |-> resp.content],
                  "Write a joke about " \o s.report_topic)

generate_joke_node(s, resp) ==
    IF resp.error THEN Raised("ServiceError")
    ELSE IF s.evaluation_feedback # ""
         THEN Returned([generated_joke |-> resp.content],
                       "Write a joke about " \o s.report_topic
                       \o " considering this feedback: " \o s.evaluation_feedback)
         ELSE Returned([generated_joke |-> resp.content],
                       "Write a joke about " \o s.report_topic)

\* evaluate_joke_node catching the failure of its LLM call and asking for
\* another joke instead
evaluate_joke_node_swallowing(s, resp) ==
    IF resp.error
    THEN Returned([joke_quality |-> "not funny", evaluation_feedback |-> ""], None)
    ELSE Returned([joke_quality |-> resp.grade,
                   evaluation_feedback |-> resp.feedback],
                  "Evaluate the following joke and provide a grade (funny or not funny) and feedback: "
                  \o s.generated_joke)

evaluate_joke_node(s, resp) ==
    IF resp.error THEN Raised("ServiceError")
    ELSE Returned([joke_quality |-> resp.grade,
                   evaluation_feedback |-> resp.feedback],
                  "Evaluate the following joke and provide a grade (funny or not funny) and feedback: "
                  \o s.generated_joke)

(* orchestrator_worker_workflow.py *)

\* ReportSection objects the planner may return
Sections == {[section_name |-> "Intro", section_description |-> "d1"],
             [section_name |-> "Body", section_description |-> "d2"]}

orchestrator_node(s, resp) ==
    IF resp.error THEN Raised("ServiceError")
    ELSE Returned([planned_sections |-> resp.sections],
                  "The report topic is: " \o s.report_topic)

\* worker_node catching the failure of its LLM call and returning an empty
\* section instead
worker_node_swallowing(s, resp) ==
    IF resp.error THEN Returned([worker_outputs |-> <<"">>], None)
    ELSE Returned([worker_outputs |-> <<resp.content>>],
                  "Section Name: " \o s.assigned_section.section_name
                  \o "\nSection Description: "
                  \o s.assigned_section.section_description)

worker_node(s, resp) ==
    IF resp.error THEN Raised("ServiceError")
    ELSE Returned([worker_outputs |-> <<resp.content>>],
                  "Section Name: " \o s.assigned_section.section_name
                  \o "\nSection Description: "
                  \o s.assigned_section.section_description)

RECURSIVE Join(_, _)
\* sep.join(parts)
Join(sep, parts) ==
    IF parts = <<>> THEN ""
    ELSE IF Len(parts) = 1 THEN parts[1]
    ELSE parts[1] \o sep \o Join(sep, Tail(parts))

\* synthesizer_node returning the plan emptied along with the report
synthesizer_node_clearing_plan(s, resp) ==
    LET aggregated_sections == Join("\n\n---\n\n", s.worker_outputs)
    IN  Returned([final_report |-> "Final Report on " \o s.report_topic
                                   \o ":\n\n" \o aggregated_sections,
                  planned_sections |-> <<>>],
                 None)

synthesizer_node(s, resp) ==
    LET aggregated_sections == Join("\n\n---\n\n", s.worker_outputs)
    IN  Returned([final_report |-> "Final Report on " \o s.report_topic
                                   \o ":\n\n" \o aggregated_sections],
                 None)

(* agent_workflow.py *)

\* names registered in tools_lookup
tools_lookup == {"add_numbers", "multiply_numbers", "divide_numbers"}

\* tool calls a model response may carry: name, args and call identifier;
\* subtract_numbers is a name the registry does not hold
ToolCallChoices ==
    {[name |-> "add_numbers", id |-> "c1",
      args |-> [first_number |-> 3, second_number |-> 4]],
     [name |-> "divide_numbers", id |-> "c2",
      args |-> [first_number |-> 4, second_number |-> 2]],
     [name |-> "divide_numbers", id |-> "c3",
      args |-> [first_number |-> 4, second_number |-> 0]],
     [name |-> "subtract_numbers", id |-> "c4",
      args |-> [first_number |-> 4, second_number |-> 1]]}

RECURSIVE FractionDigits(_, _, _)
\* decimal digits of r / b (0 <= r < b) by long division, at most n of them
FractionDigits(r, b, n) ==
    IF r = 0 \/ n = 0 THEN ""
    ELSE ToString((r * 10) \div b) \o FractionDigits((r * 10) % b, b, n - 1)

\* str(a / b) for ints a >= 0, b > 0 whose quotient has a finite decimal
\* expansion: Python prints a float with its fraction, "2.0" for a whole one
FloatStr(a, b) ==
    LET digits == FractionDigits(a % b, b, 16)
    IN  ToString(a \div b) \o "." \o (IF digits = "" THEN "0" ELSE digits)

\* str(tool_function.invoke(args)), or the exception the tool raises
ToolInvokeStr(name, args) ==
    CASE name = "add_numbers" ->
           [raised |-> FALSE,
            str |-> ToString(args.first_number + args.second_number)]
      [] name = "multiply_numbers" ->
           [raised |-> FALSE,
            str |-> ToString(args.first_number * args.second_number)]
      [] name = "divide_numbers" ->
           IF args.second_number = 0
           THEN [raised |-> TRUE, error |-> "ZeroDivisionError"]
           ELSE [raised |-> FALSE,
                 str |-> FloatStr(args.first_number, args.second_number)]

SystemMessage(content) == [type |-> "system", content |-> content]
HumanMessage(content) == [type |-> "human", content |-> content]
AIMessage(content, tool_calls) ==
    [type |-> "ai", content |-> content, tool_calls |-> tool_calls]
ToolMessage(content, tool_call_id) ==
    [type |-> "tool", content |-> content, tool_call_id |-> tool_call_id]

\* getattr(message, "tool_calls", [])
ToolCallsOf(message) ==
    IF "tool_calls" \in DOMAIN message THEN message.tool_calls ELSE <<>>

agent_llm_call(s, resp) ==
    LET combined_messages ==
            <<SystemMessage("You are a helpful arithmetic assistant.")>>
            \o s.messages
    IN  IF resp.error THEN Raised("ServiceError")
        ELSE Returned([messages |-> <<AIMessage(resp.content, resp.tool_calls)>>],
                      combined_messages)

RECURSIVE ToolLoop(_, _)
\* the for loop of agent_tool_execution over the remaining calls, with the
\* tool messages collected so far
ToolLoop(calls, tool_messages) ==
    IF calls = <<>> THEN Returned([messages |-> tool_messages], None)
    ELSE LET tool_call == Head(calls)
         IN  IF tool_call.name \in tools_lookup
             THEN LET result == ToolInvokeStr(tool_call.name, tool_call.args)
                  IN  IF result.raised THEN Raised(result.error)
                      ELSE ToolLoop(Tail(calls),
                                    Append(tool_messages,
                                           ToolMessage(result.str, tool_call.id)))
             ELSE ToolLoop(Tail(calls), tool_messages)

\* agent_tool_execution serving only the first tool call of the message
agent_tool_execution_first_call_only(s, resp) ==
    LET calls == ToolCallsOf(s.messages[Len(s.messages)])
    IN  ToolLoop(IF calls = <<>> THEN <<>> ELSE <<Head(calls)>>, <<>>)

agent_tool_execution(s, resp) ==
    LET last_agent_message == s.messages[Len(s.messages)]
    IN  ToolLoop(ToolCallsOf(last_agent_message), <<>>)

-----------------------------------------------------------------------------
(* Routers.  A router returns one label, or a list of Send instructions.   *)

Single(label) == [kind |-> "single", label |-> label]
FanOut(sends) == [kind |-> "fanout", sends |-> sends]
Send(node, seed) == [node |-> node, send |-> TRUE, seed |-> seed]

\* decide_agent_route with its test inverted
decide_agent_route_inverted(s) ==
    LET last_message == s.messages[Len(s.messages)]
    IN  IF ToolCallsOf(last_message) = <<>> THEN Single("execute_tool")
        ELSE Single(END)

decide_agent_route(s) ==
    LET last_message == s.messages[Len(s.messages)]
    IN  IF ToolCallsOf(last_message) # <<>> THEN Single("execute_tool")
        ELSE Single(END)

\* route_joke_decision with its two branches exchanged
route_joke_decision_swapped(s) ==
    IF s.joke_quality = "funny" THEN Single("LoopBackForImprovement")
    ELSE IF s.joke_quality = "not funny" THEN Single("Accepted")
    ELSE Single(None)

\* falls off the end, returning None, when joke_quality is neither value
route_joke_decision(s) ==
    IF s.joke_quality = "funny" THEN Single("Accepted")
    ELSE IF s.joke_quality = "not funny" THEN Single("LoopBackForImprovement")
    ELSE Single(None)

\* decide_next_node with the story and joke targets exchanged
decide_next_node_swapped(s) ==
    LET decision == s.routing_decision
    IN  IF decision = "story" THEN Single("generate_joke_output")
        ELSE IF decision = "joke" THEN Single("generate_story_output")
        ELSE IF decision = "poem" THEN Single("generate_poem_output")
        ELSE Single(None)

\* decide_next_node closed by an else branch instead of falling off the end
decide_next_node_with_default(s) ==
    LET decision == s.routing_decision
    IN  IF decision = "story" THEN Single("generate_story_output")
        ELSE IF decision = "joke" THEN Single("generate_joke_output")
        ELSE Single("generate_poem_output")

\* falls off the end, returning None, when the decision is none of the three
decide_next_node(s) ==
    LET decision == s.routing_decision
    IN  IF decision = "story" THEN Single("generate_story_output")
        ELSE IF decision = "joke" THEN Single("generate_joke_output")
        ELSE IF decision = "poem" THEN Single("generate_poem_output")
        ELSE Single(None)

\* assign_workers walking planned_sections from the last section to the first
assign_workers_reversed(s) ==
    FanOut([i \in 1..Len(s.planned_sections) |->
               Send("worker_node",
                    [assigned_section |->
                        s.planned_sections[Len(s.planned_sections) + 1 - i]])])

assign_workers(s) ==
    FanOut([i \in 1..Len(s.planned_sections) |->
               Send("worker_node", [assigned_section |-> s.planned_sections[i]])])

-----------------------------------------------------------------------------
(* Graph wiring: add_edge calls in source order, and the route map of each *)
(* add_conditional_edges call.                                             *)

\* the parallel wiring with the aggregator also started from START
ParallelEdges_aggregator_at_start ==
    << <<START, "generate_joke_output">>,
       <<START, "generate_story_output">>,
       <<START, "generate_poem_output">>,
       <<START, "aggregate_outputs">>,
       <<"generate_joke_output", "aggregate_outputs">>,
       <<"generate_story_output", "aggregate_outputs">>,
       <<"generate_poem_output", "aggregate_outputs">>,
       <<"aggregate_outputs", END>> >>

\* the story generator wired after the joke generator instead of after START
ParallelEdges_story_after_joke ==
    << <<START, "generate_joke_output">>,
       <<"generate_joke_output", "generate_story_output">>,
       <<START, "generate_poem_output">>,
       <<"generate_joke_output", "aggregate_outputs">>,
       <<"generate_story_output", "aggregate_outputs">>,
       <<"generate_poem_output", "aggregate_outputs">>,
       <<"aggregate_outputs", END>> >>

ParallelEdges ==
    << <<START, "generate_joke_output">>,
       <<START, "generate_story_output">>,
       <<START, "generate_poem_output">>,
       <<"generate_joke_output", "aggregate_outputs">>,
       <<"generate_story_output", "aggregate_outputs">>,
       <<"generate_poem_output", "aggregate_outputs">>,
       <<"aggregate_outputs", END>> >>

\* the story generator wired to the joke generator instead of END
RoutingEdges_story_chained ==
    << <<START, "route_input">>,
       <<"generate_story_output", "generate_joke_output">>,
       <<"generate_joke_output", END>>,
       <<"generate_poem_output", END>> >>

RoutingEdges ==
    << <<START, "route_input">>,
       <<"generate_story_output", END>>,
       <<"generate_joke_output", END>>,
       <<"generate_poem_output", END>> >>

RoutingRouteMap ==
    [generate_story_output |-> "generate_story_output",
     generate_joke_output |-> "generate_joke_output",
     generate_poem_output |-> "generate_poem_output"]

OrchestratorEdges ==
    << <<START, "orchestrator_node">>,
       <<"worker_node", "synthesizer_node">>,
       <<"synthesizer_node", END>> >>

EvaluatorEdges ==
    << <<START, "generate_joke_node">>,
       <<"generate_joke_node", "evaluate_joke_node">> >>

\* the route map with both labels leading back to the generator
EvaluatorRouteMap_no_end ==
    [Accepted |-> "generate_joke_node", LoopBackForImprovement |-> "generate_joke_node"]

EvaluatorRouteMap ==
    [Accepted |-> END, LoopBackForImprovement |-> "generate_joke_node"]

AgentEdges ==
    << <<START, "agent_llm_call">>,
       <<"agent_tool_execution", "agent_llm_call">> >>

AgentRouteMap == ("execute_tool" :> "agent_tool_execution") @@ (END :> END)

Edges(w) ==
    CASE w = "parallel" -> ParallelEdges
      [] w = "routing" -> RoutingEdges
      [] w = "orchestrator" -> OrchestratorEdges
      [] w = "evaluator" -> EvaluatorEdges
      [] w = "agent" -> AgentEdges

\* the node each workflow's conditional edge leaves from
ConditionalSource(w) ==
    CASE w = "parallel" -> None
      [] w = "routing" -> "route_input"
      [] w = "orchestrator" -> "orchestrator_node"
      [] w = "evaluator" -> "evaluate_joke_node"
      [] w = "agent" -> "agent_llm_call"

Router(w, s) ==
    CASE w = "routing" -> decide_next_node(s)
      [] w = "orchestrator" -> assign_workers(s)
      [] w = "evaluator" -> route_joke_decision(s)
      [] w = "agent" -> decide_agent_route(s)

RouteMap(w) ==
    CASE w = "routing" -> RoutingRouteMap
      [] w = "orchestrator" -> [worker_node |-> "worker_node"]
      [] w = "evaluator" -> EvaluatorRouteMap
      [] w = "agent" -> AgentRouteMap

\* the function registered under a node identifier by add_node
NodeFn(w, node, s, resp) ==
    CASE w = "parallel" /\ node = "generate_joke_output" ->
             parallel_generate_joke_output(s, resp)
      [] w = "parallel" /\ node = "generate_story_output" ->
             parallel_generate_story_output(s, resp)
      [] w = "parallel" /\ node = "generate_poem_output" ->
             parallel_generate_poem_output(s, resp)
      [] w = "parallel" /\ node = "aggregate_outputs" -> aggregate_outputs(s, resp)
      [] w = "routing" /\ node = "route_input" -> route_input(s, resp)
      [] w = "routing" /\ node = "generate_story_output" ->
             routing_generate_story_output(s, resp)
      [] w = "routing" /\ node = "generate_joke_output" ->
             routing_generate_joke_output(s, resp)
      [] w = "routing" /\ node = "generate_poem_output" ->
             routing_generate_poem_output(s, resp)
      [] w = "orchestrator" /\ node = "orchestrator_node" -> orchestrator_node(s, resp)
      [] w = "orchestrator" /\ node = "worker_node" -> worker_node(s, resp)
      [] w = "orchestrator" /\ node = "synthesizer_node" -> synthesizer_node(s, resp)
      [] w = "evaluator" /\ node = "generate_joke_node" -> generate_joke_node(s, resp)
      [] w = "evaluator" /\ node = "evaluate_joke_node" -> evaluate_joke_node(s, resp)
      [] w = "agent" /\ node = "agent_llm_call" -> agent_llm_call(s, resp)
      [] w = "agent" /\ node = "agent_tool_execution" -> agent_tool_execution(s, resp)

\* the initial State each run_*_workflow passes to invoke
InitialState(w) ==
    CASE w = "parallel" -> [topic |-> "cats"]
      [] w = "routing" -> [user_input |-> "Write me a joke about cats"]
      [] w = "orchestrator" -> [report_topic |-> "Scaling Laws in LLMs"]
      [] w = "evaluator" ->
             [report_topic |-> "Cats", generated_joke |-> "",
              evaluation_feedback |-> "", joke_quality |-> ""]
      [] w = "agent" -> [messages |-> <<HumanMessage("Add 3 and 4.")>>]

-----------------------------------------------------------------------------
(* The LLM collaborator: the answers a node's LLM call may get.            *)

TextResponses == {[error |-> FALSE, content |-> t] : t \in Texts}

Responses(w, node) ==
    CASE node \in {"aggregate_outputs", "synthesizer_node", "agent_tool_execution"} ->
             {NoLLM}
      [] node = "route_input" ->
             {[error |-> FALSE, step |-> x] : x \in RouteSteps} \cup {LLMFailure}
      [] node = "evaluate_joke_node" ->
             {[error |-> FALSE, grade |-> g, feedback |-> f] :
                 g \in Grades, f \in Feedbacks} \cup {LLMFailure}
      [] node = "orchestrator_node" ->
             {[error |-> FALSE, sections |-> p] : p \in SeqsUpTo(Sections, MaxSections)}
             \cup {LLMFailure}
      [] node = "agent_llm_call" ->
             {[error |-> FALSE, content |-> "t1", tool_calls |-> c] :
                 c \in DistinctSeqsUpTo(ToolCallChoices, MaxToolCalls)}
             \cup {LLMFailure}
      [] OTHER -> TextResponses \cup {LLMFailure}

-----------------------------------------------------------------------------
(* The Run Executor (spec.md section 4.2).                                 *)

\* step 1: the initial State completed with the default of every declared field
WithDefaults(w, init) ==
    [f \in DOMAIN Schema(w) |-> IF f \in DOMAIN init THEN init[f] ELSE FieldDefault(f)]

\* step 3b, one update: replace overwrites, append concatenates
Merge(w, s, update) ==
    [f \in DOMAIN s |->
        IF f \in DOMAIN update
        THEN IF Schema(w)[f] = "append" THEN s[f] \o update[f] ELSE update[f]
        ELSE s[f]]

RECURSIVE MergeAll(_, _, _)
\* step 3b: the updates of one frontier step merged in spawn order
MergeAll(w, s, updates) ==
    IF updates = <<>> THEN s
    ELSE MergeAll(w, Merge(w, s, Head(updates)), Tail(updates))

StaticTask(node) == [node |-> node, send |-> FALSE]

RECURSIVE Dedup(_, _)
\* a frontier holds a node identifier once; every Send is a branch of its own
Dedup(tasks, seen) ==
    IF tasks = <<>> THEN <<>>
    ELSE LET t == Head(tasks)
         IN  IF ~t.send /\ t.node \in seen THEN Dedup(Tail(tasks), seen)
             ELSE <<t>> \o Dedup(Tail(tasks), IF t.send THEN seen ELSE seen \cup {t.node})

RECURSIVE EdgeTargets(_, _)
\* targets of the unconditional edges leaving node `from`, in edge order
EdgeTargets(edges, from) ==
    IF edges = <<>> THEN <<>>
    ELSE (IF Head(edges)[1] = from THEN <<StaticTask(Head(edges)[2])>> ELSE <<>>)
         \o EdgeTargets(Tail(edges), from)

\* step 3c for one executed node: its unconditional edges fire; its router is
\* invoked on the post-merge State and its label translated by the route map
Outgoing(w, node, s) ==
    LET fixed == EdgeTargets(Edges(w), node)
    IN  IF node # ConditionalSource(w) THEN [error |-> FALSE, tasks |-> fixed]
        ELSE LET decision == Router(w, s)
             IN  IF decision.kind = "fanout"
                 THEN [error |-> FALSE, tasks |-> fixed \o decision.sends]
                 ELSE IF decision.label \in DOMAIN RouteMap(w)
                 THEN [error |-> FALSE,
                       tasks |-> fixed \o <<StaticTask(RouteMap(w)[decision.label])>>]
                 ELSE [error |-> TRUE, tasks |-> <<>>]

RECURSIVE OutgoingAll(_, _, _)
OutgoingAll(w, nodes, s) ==
    IF nodes = <<>> THEN [error |-> FALSE, tasks |-> <<>>]
    ELSE LET first == Outgoing(w, Head(nodes), s)
             rest == OutgoingAll(w, Tail(nodes), s)
         IN  [error |-> first.error \/ rest.error, tasks |-> first.tasks \o rest.tasks]

\* step 3c: the next frontier, without the terminal marker
NextFrontier(w, ran, s) ==
    LET out == OutgoingAll(w, ran, s)
        live == SelectSeq(out.tasks, LAMBDA t : t.node # END)
    IN  [error |-> out.error, tasks |-> Dedup(live, {})]

\* step 3a: a branch spawned by Send runs on its seed, any other node on the
\* State snapshot of the step
TaskInput(task, s) == IF task.send THEN task.seed ELSE s

Pending == [done |-> FALSE]
NoOutcome == [kind |-> "none"]

AllPending(n) == [i \in 1..n |-> Pending]

\* the entry frontier: the targets of the edges from START
EntryFrontier(w) == Dedup(EdgeTargets(Edges(w), START), {})

(* compile(): the best-effort static check *)

\* the nodes one edge away from n: the targets of its unconditional edges
\* and, when n carries the conditional edge, the targets of its route map
Successors(w, edges, n) ==
    {edges[i][2] : i \in {k \in 1..Len(edges) : edges[k][1] = n}}
    \cup (IF n # None /\ n = ConditionalSource(w)
          THEN {RouteMap(w)[l] : l \in DOMAIN RouteMap(w)}
          ELSE {})

RECURSIVE Reach(_, _, _, _)
\* the nodes reachable from the nodes of todo, those of seen being visited
Reach(w, edges, seen, todo) ==
    IF todo = {} THEN seen
    ELSE LET n == CHOOSE n \in todo : TRUE
             new == Successors(w, edges, n) \ (seen \cup todo)
         IN  Reach(w, edges, seen \cup {n}, (todo \ {n}) \cup new)

\* compile(): fails when no edge path leads from the entry to the terminal
\* marker; a cycle is not an error
compile(w, edges) ==
    IF END \in Reach(w, edges, {}, {START})
    THEN [edges |-> edges, compiled |-> "ok"]
    ELSE [edges |-> edges, compiled |-> "DisconnectedGraphError"]

\* the builder before compile()
Builder(edges) == [edges |-> edges, compiled |-> "no"]

DisconnectedGraphError == [kind |-> "error", error |-> "DisconnectedGraphError"]

(* invoke *)

Init ==
    /\ wf \in Workflows
    /\ graph = compile(wf, Edges(wf))
    /\ state = WithDefaults(wf, InitialState(wf))
    /\ frontier = EntryFrontier(wf)
    /\ results = AllPending(Len(frontier))
    /\ status = IF graph.compiled = "ok" THEN "running" ELSE "error"
    /\ outcome = IF graph.compiled = "ok" THEN NoOutcome ELSE DisconnectedGraphError
    /\ executed = <<>>
    /\ step = 1

\* the bounds on the two loops
WithinBounds(node) ==
    /\ node = "generate_joke_node" =>
           CountNode(executed, "generate_joke_node") < MaxJokeAttempts
    /\ node = "agent_llm_call" =>
           CountNode(executed, "agent_llm_call") < MaxAgentTurns

\* step 3a: one active node of the frontier runs to completion on the
\* snapshot; if it raises, invoke propagates the error and the run is over
ExecuteNode(i, resp) ==
    /\ status = "running"
    /\ i \in 1..Len(frontier)
    /\ ~results[i].done
    /\ WithinBounds(frontier[i].node)
    /\ resp \in Responses(wf, frontier[i].node)
    /\ LET task == frontier[i]
           input == TaskInput(task, state)
           r == NodeFn(wf, task.node, input, resp)
           entry == [node |-> task.node, step |-> step, task |-> i,
                     input |-> input, resp |-> resp, ok |-> r.ok,
                     update |-> IF r.ok THEN r.update ELSE <<>>,
                     prompt |-> IF r.ok THEN r.prompt ELSE None]
       IN  /\ executed' = Append(executed, entry)
           /\ IF r.ok
              THEN /\ results' = [results EXCEPT ![i] = [done |-> TRUE, update |-> r.update]]
                   /\ UNCHANGED <<status, outcome>>
              ELSE /\ status' = "error"
                   /\ outcome' = [kind |-> "error", error |-> r.error]
                   /\ UNCHANGED results
    /\ UNCHANGED <<wf, graph, state, frontier, step>>

\* steps 3b, 3c and 4: every node of the frontier has finished; merge their
\* updates in spawn order, resolve the outgoing edges, and either go on with
\* the next frontier, return the final State, or abort with RouterError
EndFrontierStep ==
    /\ status = "running"
    /\ \A i \in 1..Len(frontier) : results[i].done
    /\ LET merged == MergeAll(wf, state, [i \in 1..Len(frontier) |-> results[i].update])
           ran == [i \in 1..Len(frontier) |-> frontier[i].node]
           next == NextFrontier(wf, ran, merged)
       IN  /\ state' = merged
           /\ IF next.error
              THEN /\ status' = "error"
                   /\ outcome' = [kind |-> "error", error |-> "RouterError"]
                   /\ UNCHANGED <<frontier, results, step>>
              ELSE IF next.tasks = <<>>
              THEN /\ status' = "done"
                   /\ outcome' = [kind |-> "state", state |-> merged]
                   /\ UNCHANGED <<frontier, results, step>>
              ELSE /\ frontier' = next.tasks
                   /\ results' = AllPending(Len(next.tasks))
                   /\ step' = step + 1
                   /\ UNCHANGED <<status, outcome>>
    /\ UNCHANGED <<wf, graph, executed>>

Next ==
    \/ \E i \in 1..Len(frontier) : \E resp \in Responses(wf, frontier[i].node) :
           ExecuteNode(i, resp)
    \/ EndFrontierStep

Spec == Init /\ [][Next]_vars

\* the executor is one thread of control: when every node of the frontier has
\* finished it does merge and go on
FairSpec == Spec /\ WF_vars(EndFrontierStep)

-----------------------------------------------------------------------------
(* Reading the execution log *)

Last(log) == log[Len(log)]

\* positions of the log where node n ran
EntriesOf(n) == {j \in 1..Len(executed) : executed[j].node = n}

\* every logged update has been merged into State: the run is between two
\* frontier steps, or has returned
AllMerged ==
    \/ status = "done"
    \/ status = "running" /\ \A i \in 1..Len(frontier) : ~results[i].done

RECURSIVE ProducedMessages(_)
\* the messages returned by the node executions of a log, in log order
ProducedMessages(log) ==
    IF log = <<>> THEN <<>>
    ELSE ProducedMessages(SubSeq(log, 1, Len(log) - 1))
         \o (IF Last(log).ok THEN Last(log).update.messages ELSE <<>>)

-----------------------------------------------------------------------------
(* Orchestrator-worker: collected worker outputs *)

\* the log position of the worker spawned for the i-th planned section
WorkerEntry(i) ==
    CHOOSE j \in EntriesOf("worker_node") : executed[j].task = i

\* C1: when the orchestrator-worker run ends with a plan of N >= 1 sections,
\* N workers ran and worker_outputs holds exactly N entries, the i-th being
\* the output of the worker spawned for the i-th section.
C1_WorkerOutputsInSpawnOrder ==
    (wf = "orchestrator" /\ status = "done" /\ Len(state.planned_sections) >= 1) =>
        LET N == Len(state.planned_sections)
        IN  /\ Cardinality(EntriesOf("worker_node")) = N
            /\ Len(state.worker_outputs) = N
            /\ \A i \in 1..N :
                   state.worker_outputs[i] = executed[WorkerEntry(i)].resp.content

-----------------------------------------------------------------------------
(* Agent: message history *)

\* C2: in the agent workflow messages is append-only: whenever every produced
\* update is merged, messages is the initial messages followed by every model
\* response and tool message produced so far, in the order produced.
C2_MessagesAppendOnly ==
    (wf = "agent" /\ AllMerged) =>
        state.messages = InitialState("agent").messages \o ProducedMessages(executed)

-----------------------------------------------------------------------------
(* Evaluator-optimizer: the loop *)

\* number of evaluations so far that graded the joke "not funny"
NotFunnyCount ==
    Cardinality({j \in EntriesOf("evaluate_joke_node") :
                    executed[j].ok /\ executed[j].resp.grade = "not funny"})

\* the evaluator has just graded the joke "funny"
C3_Accepting ==
    /\ wf = "evaluator"
    /\ status = "running"
    /\ executed # <<>>
    /\ Last(executed).node = "evaluate_joke_node"
    /\ Last(executed).ok
    /\ Last(executed).resp.grade = "funny"

\* generate and evaluate strictly alternate, starting with generate; nothing
\* runs after a grade other than "not funny"; a run that has ended made K+1
\* generations and K+1 evaluations, K of them graded "not funny" and the
\* last one "funny"
C3_Shape ==
    wf = "evaluator" =>
        /\ \A j \in 1..Len(executed) :
               /\ executed[j].node = IF j % 2 = 1 THEN "generate_joke_node"
                                     ELSE "evaluate_joke_node"
               /\ (j < Len(executed) /\ j % 2 = 0) =>
                      executed[j].resp.grade = "not funny"
        /\ status = "done" =>
               /\ Len(executed) = 2 * (NotFunnyCount + 1)
               /\ CountNode(executed, "generate_joke_node") = NotFunnyCount + 1
               /\ CountNode(executed, "evaluate_joke_node") = NotFunnyCount + 1
               /\ Last(executed).resp.grade = "funny"
        /\ C3_Accepting => ENABLED EndFrontierStep

\* C3: if the evaluator grades the joke "not funny" K times and then "funny",
\* the evaluator-optimizer run terminates, having executed generate_joke_node
\* and evaluate_joke_node K+1 times each, strictly alternating from generate:
\* the step the executor takes from the accepting evaluation ends the run.
C3_LoopTerminates ==
    /\ []C3_Shape
    /\ [][C3_Accepting => status' = "done"]_vars

\* a run accepted after five rejections
C3_Witness ==
    /\ wf = "evaluator"
    /\ status = "done"
    /\ NotFunnyCount = 5
    /\ Len(executed) = 12

-----------------------------------------------------------------------------
(* Routing: the conditional edge of route_input *)

RouteLabels == {"story", "joke", "poem"}

\* the generator node the route map holds for a decision
GeneratorFor(decision) == "generate_" \o decision \o "_output"

\* C4: in the routing workflow, for each routing_decision in story, joke, poem
\* written by route_input, the frontier after route_input is exactly the
\* generator mapped to that decision, no other node ever runs, and
\* final_output is the value written by that generator.
C4_RoutesToMappedNode ==
    wf = "routing" =>
        \A d \in RouteLabels :
            (executed # <<>> /\ executed[1].ok /\ executed[1].update.routing_decision = d) =>
                /\ executed[1].node = "route_input"
                /\ Len(executed) <= 2
                /\ step <= 2
                /\ step = 2 =>
                       /\ state.routing_decision = d
                       /\ frontier = <<StaticTask(GeneratorFor(d))>>
                /\ Len(executed) = 2 =>
                       /\ executed[2].node = GeneratorFor(d)
                       /\ executed[2].step = 2
                /\ status = "done" =>
                       /\ Len(executed) = 2
                       /\ state.final_output = executed[2].resp.content
                       /\ outcome.state.final_output = executed[2].resp.content

\* the run routed to the story generator has returned
C4_Witness ==
    /\ wf = "routing"
    /\ status = "done"
    /\ state.routing_decision = "story"
    /\ executed[2].node = "generate_story_output"
    /\ state.final_output = "t2"

-----------------------------------------------------------------------------
(* RouterError *)

RouterError == [kind |-> "error", error |-> "RouterError"]

\* the node before a conditional edge has just written a value for which the
\* router returns no key of its route map
C5_Unmapped ==
    /\ executed # <<>>
    /\ Last(executed).ok
    /\ \/ /\ wf = "evaluator"
          /\ Last(executed).node = "evaluate_joke_node"
          /\ Last(executed).update.joke_quality \notin {"funny", "not funny"}
       \/ /\ wf = "routing"
          /\ Last(executed).node = "route_input"
          /\ Last(executed).update.routing_decision \notin RouteLabels

\* C5: when joke_quality is neither "funny" nor "not funny", or
\* routing_decision is none of story, joke, poem (None included), the router
\* returns no key of its route map and invoke aborts with RouterError: the
\* run neither returns a State nor continues to another node.
C5_UnmappedLabelAborts ==
    /\ [](C5_Unmapped =>
             \/ status = "running" /\ outcome = NoOutcome /\ ENABLED EndFrontierStep
             \/ status = "error" /\ outcome = RouterError)
    /\ [][(C5_Unmapped /\ status = "running") =>
             (status' = "error" /\ outcome' = RouterError /\ executed' = executed)]_vars

\* the routing run aborted on the unset default of RouteOutput.step
C5_Witness ==
    /\ wf = "routing"
    /\ status = "error"
    /\ outcome = RouterError
    /\ state.routing_decision = None

-----------------------------------------------------------------------------
(* Orchestrator-worker: the synthesizer *)

\* the outputs of the workers in spawn order
WorkerOutputs ==
    [i \in 1..Cardinality(EntriesOf("worker_node")) |->
        executed[WorkerEntry(i)].resp.content]

\* C6: for every plan, zero sections included, when the orchestrator-worker
\* run ends synthesizer_node has executed exactly once, after every worker,
\* and final_report is the aggregation of all worker outputs.
C6_SynthesizerOnceOverAllOutputs ==
    (wf = "orchestrator" /\ status = "done") =>
        /\ Cardinality(EntriesOf("synthesizer_node")) = 1
        /\ Cardinality(EntriesOf("worker_node")) = Len(state.planned_sections)
        /\ \A j \in EntriesOf("synthesizer_node") :
               \A k \in EntriesOf("worker_node") : k < j /\ executed[k].step < executed[j].step
        /\ state.final_report =
               "Final Report on " \o state.report_topic \o ":\n\n"
               \o Join("\n\n---\n\n", WorkerOutputs)

-----------------------------------------------------------------------------
(* Parallel: fan-out and fan-in *)

Generators == {"generate_joke_output", "generate_story_output", "generate_poem_output"}

\* the State field a generator of the parallel workflow writes
GeneratorField(node) ==
    CASE node = "generate_joke_output" -> "joke"
      [] node = "generate_story_output" -> "story"
      [] node = "generate_poem_output" -> "poem"

\* the text generator `node` returned in the first step
GeneratedText(node) ==
    executed[CHOOSE k \in EntriesOf(node) : TRUE].resp.content

\* C7: in the parallel workflow the three generators all start in the first
\* frontier step; aggregate_outputs executes at most once, exactly once in a
\* run that ends, in a later step, after all three generators have completed
\* and their values are merged; combined_output is built from those values.
C7_AggregateAfterAllGenerators ==
    wf = "parallel" =>
        /\ step = 1 =>
               /\ Len(frontier) = 3
               /\ {frontier[i].node : i \in 1..Len(frontier)} = Generators
        /\ \A g \in Generators :
               /\ Cardinality(EntriesOf(g)) <= 1
               /\ \A k \in EntriesOf(g) : executed[k].step = 1
        /\ Cardinality(EntriesOf("aggregate_outputs")) <= 1
        /\ \A j \in EntriesOf("aggregate_outputs") :
               /\ executed[j].step = 2
               /\ \A g \in Generators :
                      /\ \E k \in EntriesOf(g) : k < j /\ executed[k].ok
                      /\ executed[j].input[GeneratorField(g)] = GeneratedText(g)
               /\ executed[j].update.combined_output =
                      CombinedText("cats", GeneratedText("generate_story_output"),
                                   GeneratedText("generate_joke_output"),
                                   GeneratedText("generate_poem_output"))
        /\ status = "done" =>
               /\ Cardinality(EntriesOf("aggregate_outputs")) = 1
               /\ state.combined_output =
                      Last(executed).update.combined_output

\* the parallel run has returned, the poem generator having finished first
\* and the joke generator last
C7_Witness ==
    /\ wf = "parallel"
    /\ status = "done"
    /\ executed[1].node = "generate_poem_output"
    /\ executed[3].node = "generate_joke_output"
    /\ executed[4].node = "aggregate_outputs"
    /\ state.joke = "t1" /\ state.story = "t2"

-----------------------------------------------------------------------------
(* Agent: tool execution *)

\* the tool calls of the last message agent_tool_execution was run on
CallsAt(j) ==
    ToolCallsOf(executed[j].input.messages[Len(executed[j].input.messages)])

\* those of them that name a registered tool, in call order
RegisteredCallsAt(j) ==
    SelectSeq(CallsAt(j), LAMBDA c : c.name \in {"add_numbers", "multiply_numbers",
                                                  "divide_numbers"})

\* the call makes its tool raise: a division by zero
RaisesAt(c) == c.name = "divide_numbers" /\ c.args.second_number = 0

\* execution j returned one tool message per registered call, in call order,
\* with the call's identifier and the string form of the tool's result
ToolMessagesMatch(j) ==
    LET registered == RegisteredCallsAt(j)
        returned == executed[j].update.messages
    IN  /\ Len(returned) = Len(registered)
        /\ \A i \in 1..Len(registered) :
               /\ returned[i].type = "tool"
               /\ returned[i].tool_call_id = registered[i].id
               /\ returned[i].content =
                      ToolInvokeStr(registered[i].name, registered[i].args).str

\* C8 as stated: agent_tool_execution always returns one tool message for
\* every call naming a registered tool, in call order, with the call's
\* identifier and the string form of the tool's result; unregistered names
\* produce no message and no error.
C8_OneMessagePerRegisteredCall ==
    wf = "agent" =>
        \A j \in EntriesOf("agent_tool_execution") :
            executed[j].ok /\ ToolMessagesMatch(j)

\* C8 amended: agent_tool_execution returns those tool messages provided no
\* registered call makes its tool raise; if one does (divide_numbers with
\* second_number = 0) the exception leaves agent_tool_execution, no message
\* is returned and the run aborts with it.  Unregistered names produce no
\* message and no error.
C8_OneMessagePerRegisteredCallUnlessToolRaises ==
    wf = "agent" =>
        \A j \in EntriesOf("agent_tool_execution") :
            LET registered == RegisteredCallsAt(j)
                raises == \E i \in 1..Len(registered) : RaisesAt(registered[i])
            IN  /\ executed[j].ok <=> ~raises
                /\ executed[j].ok => ToolMessagesMatch(j)
                /\ ~executed[j].ok =>
                       /\ j = Len(executed)
                       /\ executed[j].update = <<>>
                       /\ outcome = [kind |-> "error", error |-> "ZeroDivisionError"]

\* a response called add_numbers(3, 4) and the unregistered subtract_numbers,
\* and the tool node returned the single message "7" for c1; the next
\* response called divide_numbers(4, 2) and the tool node returned "2.0"
C8_Witness ==
    /\ wf = "agent"
    /\ Len(executed) >= 4
    /\ executed[2].node = "agent_tool_execution"
    /\ Len(CallsAt(2)) = 2
    /\ CallsAt(2)[2].name = "subtract_numbers"
    /\ executed[2].update.messages = <<ToolMessage("7", "c1")>>
    /\ executed[4].node = "agent_tool_execution"
    /\ executed[4].update.messages = <<ToolMessage("2.0", "c2")>>

-----------------------------------------------------------------------------
(* Agent: the loop *)

\* the model has just answered without tool calls
C9_FinalAnswer ==
    /\ wf = "agent"
    /\ status = "running"
    /\ executed # <<>>
    /\ Last(executed).node = "agent_llm_call"
    /\ Last(executed).ok
    /\ Last(executed).resp.tool_calls = <<>>

C9_Shape ==
    wf = "agent" =>
        /\ \A j \in 1..Len(executed) :
               /\ executed[j].node = "agent_tool_execution" =>
                      /\ j > 1
                      /\ executed[j - 1].node = "agent_llm_call"
                      /\ executed[j - 1].ok
                      /\ executed[j - 1].resp.tool_calls # <<>>
               /\ (executed[j].node = "agent_llm_call" /\ j < Len(executed)) =>
                      /\ executed[j].resp.tool_calls # <<>>
                      /\ executed[j + 1].node = "agent_tool_execution"
               /\ (executed[j].node = "agent_tool_execution" /\ j < Len(executed)) =>
                      executed[j + 1].node = "agent_llm_call"
        /\ (status = "running" /\ AllMerged /\ executed # <<>>) =>
               IF Last(executed).node = "agent_llm_call"
               THEN /\ ToolCallsOf(Last(state.messages)) # <<>>
                    /\ frontier = <<StaticTask("agent_tool_execution")>>
               ELSE frontier = <<StaticTask("agent_llm_call")>>
        /\ status = "done" =>
               /\ Last(executed).node = "agent_llm_call"
               /\ ToolCallsOf(Last(state.messages)) = <<>>
               /\ Last(executed).resp.tool_calls = <<>>
        /\ C9_FinalAnswer => ENABLED EndFrontierStep

\* C9: in the agent workflow agent_llm_call is followed by
\* agent_tool_execution if and only if the last message in State has a tool
\* call, and otherwise the run ends; agent_tool_execution is always followed
\* by agent_llm_call; the run ends at the first response without tool calls
\* and agent_tool_execution runs only directly after a response with some.
C9_AgentLoopRouting ==
    /\ []C9_Shape
    /\ [][C9_FinalAnswer => status' = "done"]_vars

\* one round of tool calls, then a final answer that ends the run
C9_Witness ==
    /\ wf = "agent"
    /\ status = "done"
    /\ Len(executed) = 3
    /\ executed[2].node = "agent_tool_execution"

-----------------------------------------------------------------------------
(* Failure of a node *)

\* C10: if a node function raises during invoke, the LLM call of
\* evaluate_joke_node failing on the third iteration for one, the run aborts
\* at once: the failing execution is the last one (no later node, no retry),
\* the caller gets the error and no State, and nothing happens afterwards.
C10_NodeErrorAborts ==
    /\ [](\A j \in 1..Len(executed) :
             (executed[j].resp.error \/ ~executed[j].ok) =>
                 /\ j = Len(executed)
                 /\ status = "error"
                 /\ outcome = [kind |-> "error",
                               error |-> IF executed[j].resp.error THEN "ServiceError"
                                         ELSE "ZeroDivisionError"])
    /\ [][status # "error"]_vars

\* the evaluator LLM failed on the third loop iteration
C10_Witness ==
    /\ wf = "evaluator"
    /\ status = "error"
    /\ outcome = [kind |-> "error", error |-> "ServiceError"]
    /\ Len(executed) = 6
    /\ Last(executed).node = "evaluate_joke_node"
    /\ Last(executed).resp.error
    /\ state.joke_quality = "not funny"

-----------------------------------------------------------------------------
(* Orchestrator-worker: a failing worker branch *)

\* C11: if the LLM call of one of the N worker_node branches fails, that
\* branch is the first and only failing one, invoke surfaces its error and
\* returns no State, no worker output (of a branch that had finished or of
\* one that was cancelled) is merged into worker_outputs, and
\* synthesizer_node never executes.
C11_FailingWorkerAborts ==
    wf = "orchestrator" =>
        \A j \in EntriesOf("worker_node") :
            executed[j].resp.error =>
                /\ status = "error"
                /\ outcome = [kind |-> "error", error |-> "ServiceError"]
                /\ j = Len(executed)
                /\ \A k \in EntriesOf("worker_node") \ {j} : executed[k].ok
                /\ state.worker_outputs = <<>>
                /\ state.final_report = ""
                /\ EntriesOf("synthesizer_node") = {}

\* three workers were spawned; the third and then the first finished, then
\* the second failed
C11_Witness ==
    /\ wf = "orchestrator"
    /\ status = "error"
    /\ Len(frontier) = 3
    /\ Len(executed) = 4
    /\ executed[2].task = 3 /\ executed[2].ok
    /\ executed[3].task = 1 /\ executed[3].ok
    /\ executed[4].task = 2 /\ executed[4].resp.error
    /\ ~results[2].done

-----------------------------------------------------------------------------
(* Final State as a function of the branches' answers *)

\* the answer the LLM gave to the one execution of node n
AnswerOf(n) == executed[CHOOSE j \in EntriesOf(n) : TRUE].resp

\* the final State of the parallel workflow computed from the answer each
\* generator got, whatever order the generators completed in
ParallelFinal ==
    LET joke == AnswerOf("generate_joke_output").content
        story == AnswerOf("generate_story_output").content
        poem == AnswerOf("generate_poem_output").content
    IN  [topic |-> "cats", joke |-> joke, story |-> story, poem |-> poem,
         combined_output |-> CombinedText("cats", story, joke, poem)]

\* the final State of the orchestrator-worker workflow computed from the plan
\* and the answer of the worker of each spawn position, whatever order the
\* workers completed in
OrchestratorFinal ==
    LET plan == AnswerOf("orchestrator_node").sections
        N == Len(plan)
        outputs == MergeAll("orchestrator", WithDefaults("orchestrator", <<>>),
                            [i \in 1..N |->
                                [worker_outputs |->
                                    <<executed[WorkerEntry(i)].resp.content>>]]
                           ).worker_outputs
    IN  [report_topic |-> "Scaling Laws in LLMs",
         planned_sections |-> plan,
         worker_outputs |-> outputs,
         final_report |->
             IF N = 0 THEN ""
             ELSE "Final Report on Scaling Laws in LLMs:\n\n"
                  \o Join("\n\n---\n\n", outputs)]

\* C12: the final State of a run is a function of the initial State and of the
\* answer each branch got, identified by its spawn position: the final State
\* of the parallel workflow and of the orchestrator-worker workflow is the
\* same for every completion order of the concurrently executed branches.
C12_FinalStateIndependentOfCompletionOrder ==
    /\ (wf = "parallel" /\ status = "done") =>
           /\ state = ParallelFinal
           /\ outcome = [kind |-> "state", state |-> ParallelFinal]
    /\ (wf = "orchestrator" /\ status = "done") =>
           /\ state = OrchestratorFinal
           /\ outcome = [kind |-> "state", state |-> OrchestratorFinal]

\* a parallel run has returned whose generators completed in the reverse of
\* their spawn order and did not all get the same answer
C12_Witness ==
    /\ wf = "parallel"
    /\ status = "done"
    /\ executed[1].node = "generate_poem_output"
    /\ executed[2].node = "generate_story_output"
    /\ executed[3].node = "generate_joke_output"
    /\ state.joke = "t1" /\ state.story = "t2" /\ state.poem = "t2"

-----------------------------------------------------------------------------
(* Routing: a graph with no cycle and no fan-out *)

RoutingNodes == {"route_input"} \cup Generators

\* log positions of the successful executions that wrote field f
WritersOf(f) ==
    {j \in 1..Len(executed) : executed[j].ok /\ f \in DOMAIN executed[j].update}

\* the value field f has after the logged executions in execution order: the
\* value of its last writer, or the value the run started with
LastWritten(f) ==
    IF WritersOf(f) = {} THEN WithDefaults(wf, InitialState(wf))[f]
    ELSE LET j == CHOOSE j \in WritersOf(f) : \A k \in WritersOf(f) : k <= j
         IN  executed[j].update[f]

\* C13 as stated: a routing run that returns has visited each of the four
\* nodes of the graph exactly once and each field of the final State holds
\* the value of its last writer.
C13_EachNodeExactlyOnce ==
    (wf = "routing" /\ status = "done") =>
        /\ \A n \in RoutingNodes : CountNode(executed, n) = 1
        /\ \A f \in DOMAIN state : state[f] = LastWritten(f)

\* C13: the routing graph has no cycle and no fan-out; invoke visits each of
\* its nodes at most once; a run that returns has visited route_input and the
\* one generator the decision selects exactly once and the other two
\* generators never, and each replace field of the final State holds the
\* value set by the last node that wrote it in execution order, or the value
\* the run started with when no node wrote it.
C13_EachNodeAtMostOnceLastWriterWins ==
    wf = "routing" =>
        /\ \A n \in RoutingNodes : CountNode(executed, n) <= 1
        /\ \A j \in 1..Len(executed) : executed[j].node \in RoutingNodes
        /\ \A i \in 1..Len(frontier) : ~frontier[i].send
        /\ Len(frontier) = 1
        /\ status = "done" =>
               /\ CountNode(executed, "route_input") = 1
               /\ \E g \in Generators :
                      /\ g = GeneratorFor(state.routing_decision)
                      /\ CountNode(executed, g) = 1
                      /\ \A h \in Generators \ {g} : CountNode(executed, h) = 0
               /\ \A f \in DOMAIN state :
                      /\ Schema(wf)[f] = "replace"
                      /\ state[f] = LastWritten(f)

\* a routing run has returned through the poem generator: two of the four
\* nodes ran, user_input was written by none
C13_Witness ==
    /\ wf = "routing"
    /\ status = "done"
    /\ Len(executed) = 2
    /\ executed[2].node = "generate_poem_output"
    /\ WritersOf("final_output") = {2}
    /\ WritersOf("user_input") = {}
    /\ state.final_output = "t1"

-----------------------------------------------------------------------------
(* compile() over the builders the workflows' add_edge calls can leave *)

RECURSIVE SubSequences(_)
\* the sequences obtained from s by leaving elements out
SubSequences(s) ==
    IF s = <<>> THEN {<<>>}
    ELSE LET rest == SubSequences(Tail(s))
         IN  rest \cup {<<Head(s)>> \o t : t \in rest}

\* a builder of workflow wf holding the nodes, the conditional edge and any
\* part of the unconditional edges of the workflow; nothing is invoked
CompileInit ==
    /\ wf \in Workflows
    /\ graph \in {Builder(e) : e \in SubSequences(Edges(wf))}
    /\ state = WithDefaults(wf, InitialState(wf))
    /\ frontier = <<>>
    /\ results = <<>>
    /\ status = "building"
    /\ outcome = NoOutcome
    /\ executed = <<>>
    /\ step = 0

\* builder.compile()
CompileGraph ==
    /\ status = "building"
    /\ graph' = compile(wf, graph.edges)
    /\ status' = IF graph'.compiled = "ok" THEN "compiled" ELSE "error"
    /\ outcome' = IF graph'.compiled = "ok" THEN NoOutcome ELSE DisconnectedGraphError
    /\ UNCHANGED <<wf, state, frontier, results, executed, step>>

CompileSpec == CompileInit /\ [][CompileGraph]_vars

\* the node identifiers of a graph
GraphNodes(w, edges) ==
    {START, END}
    \cup {edges[i][1] : i \in 1..Len(edges)} \cup {edges[i][2] : i \in 1..Len(edges)}
    \cup (IF ConditionalSource(w) = None THEN {}
          ELSE {ConditionalSource(w)} \cup {RouteMap(w)[l] : l \in DOMAIN RouteMap(w)})

\* a set of nodes that holds the entry, is closed under the edges and the
\* route-map targets, and does not hold the terminal marker: no path from the
\* entry leaves it
NoPathToEnd(w, edges) ==
    \E S \in SUBSET (GraphNodes(w, edges) \ {END}) :
        /\ START \in S
        /\ \A n \in S : Successors(w, edges, n) \subseteq S

\* some node lies on a path from itself to itself
HasCycle(w, edges) ==
    \E n \in GraphNodes(w, edges) :
        \E m \in Successors(w, edges, n) : n \in Reach(w, edges, {}, {m})

\* C14: compile() fails with DisconnectedGraphError exactly when no path over
\* unconditional edges and route-map targets leads from the entry to the
\* terminal marker, and never because of a cycle: the evaluator-optimizer
\* graph and the agent graph each contain a loop and compile.
C14_CompileFailsOnlyWhenEndUnreachable ==
    graph.compiled # "no" =>
        /\ graph.compiled = "DisconnectedGraphError" <=> NoPathToEnd(wf, graph.edges)
        /\ graph.compiled = "ok" <=> ~NoPathToEnd(wf, graph.edges)
        /\ graph.compiled = "DisconnectedGraphError" <=> outcome = DisconnectedGraphError
        /\ (wf \in {"evaluator", "agent"} /\ graph.edges = Edges(wf)) =>
               /\ HasCycle(wf, graph.edges)
               /\ graph.compiled = "ok"
               /\ status = "compiled"

\* the evaluator-optimizer graph, whose loop runs from evaluate_joke_node back
\* to generate_joke_node, has compiled
C14_Witness ==
    /\ wf = "evaluator"
    /\ graph.edges = EvaluatorEdges
    /\ graph.compiled = "ok"
    /\ status = "compiled"
    /\ HasCycle(wf, graph.edges)

\* a graph with a loop and no path to the terminal marker was rejected: the
\* agent graph without its entry edge
C14_WitnessDisconnected ==
    /\ wf = "agent"
    /\ graph.edges = << <<"agent_tool_execution", "agent_llm_call">> >>
    /\ HasCycle(wf, graph.edges)
    /\ graph.compiled = "DisconnectedGraphError"

-----------------------------------------------------------------------------
(* Orchestrator-worker: several branches of one step writing worker_outputs *)

-----------------------------------------------------------------------------
(* The State snapshot of a frontier step *)

\* log positions of the executions of the current step that ran on the
\* shared State (a worker_node branch runs on the seed of its Send)
SnapshotEntries ==
    {j \in 1..Len(executed) :
        executed[j].step = step /\ executed[j].node # "worker_node"}

\* C17: State is merged only at the end of a frontier step: while a step is
\* running the State is still the snapshot every node of the step ran on,
\* whatever the nodes already completed have returned; so the three
\* generators of the parallel workflow all run on the initial State, in which
\* joke, story and poem are empty, under every interleaving.
C17_NodesRunOnPreStepSnapshot ==
    /\ status = "running" =>
           \A j \in SnapshotEntries : executed[j].input = state
    /\ \A j, k \in 1..Len(executed) :
           (executed[j].step = executed[k].step
            /\ executed[j].node # "worker_node" /\ executed[k].node # "worker_node")
               => executed[j].input = executed[k].input
    /\ wf = "parallel" =>
           /\ \A j \in 1..Len(executed) :
                  executed[j].node \in Generators =>
                      /\ executed[j].step = 1
                      /\ executed[j].input = WithDefaults(wf, InitialState(wf))
                      /\ executed[j].input.joke = ""
                      /\ executed[j].input.story = ""
                      /\ executed[j].input.poem = ""
           /\ (step = 1 /\ status = "running") =>
                  state.joke = "" /\ state.story = "" /\ state.poem = ""

\* the joke and poem generators had returned their texts when the story
\* generator ran; it ran on a State without them, and the State is unmerged
C17_Witness ==
    /\ wf = "parallel"
    /\ step = 1
    /\ status = "running"
    /\ Len(executed) = 3
    /\ executed[1].node = "generate_joke_output" /\ executed[1].update.joke = "t1"
    /\ executed[2].node = "generate_poem_output" /\ executed[2].update.poem = "t2"
    /\ executed[3].node = "generate_story_output"
    /\ executed[3].input.joke = "" /\ executed[3].input.poem = ""
    /\ results[1].done /\ results[3].done
    /\ state.joke = ""

-----------------------------------------------------------------------------
(* The State is total over the declared fields *)

\* the fields each node function and router subscripts in its state argument
ParallelReads(node) ==
    IF node = "aggregate_outputs" THEN {"topic", "story", "joke", "poem"}
    ELSE {"topic"}

RoutingReads(node) ==
    IF node = "decide_next_node" THEN {"routing_decision"} ELSE {"user_input"}

OrchestratorReads(node) ==
    CASE node = "orchestrator_node" -> {"report_topic"}
      [] node = "worker_node" -> {"assigned_section"}
      [] node = "synthesizer_node" -> {"worker_outputs", "report_topic"}
      [] node = "assign_workers" -> {"planned_sections"}

EvaluatorReads(node) ==
    CASE node = "generate_joke_node" -> {"evaluation_feedback", "report_topic"}
      [] node = "evaluate_joke_node" -> {"generated_joke"}
      [] node = "route_joke_decision" -> {"joke_quality"}

AgentReads(node) == {"messages"}

Reads(w, node) ==
    CASE w = "parallel" -> ParallelReads(node)
      [] w = "routing" -> RoutingReads(node)
      [] w = "orchestrator" -> OrchestratorReads(node)
      [] w = "evaluator" -> EvaluatorReads(node)
      [] w = "agent" -> AgentReads(node)

\* the router of each workflow's conditional edge
RouterName(w) ==
    CASE w = "routing" -> "decide_next_node"
      [] w = "orchestrator" -> "assign_workers"
      [] w = "evaluator" -> "route_joke_decision"
      [] w = "agent" -> "decide_agent_route"

\* the nodes that run on the shared State
SharedStateNodes(w) ==
    CASE w = "parallel" -> Generators \cup {"aggregate_outputs"}
      [] w = "routing" -> RoutingNodes
      [] w = "orchestrator" -> {"orchestrator_node", "synthesizer_node"}
      [] w = "evaluator" -> {"generate_joke_node", "evaluate_joke_node"}
      [] w = "agent" -> {"agent_llm_call", "agent_tool_execution"}

\* C18: at every point of every run the State is a total mapping over the
\* declared fields; a field that is missing from the initial State and that
\* no node has written holds its default; every field a node or router reads
\* is present in the State it is given, for the nodes that have run, for the
\* branches waiting in the frontier and for every node that could run,
\* aggregate_outputs and synthesizer_node included.
C18_StateTotalOverDeclaredFields ==
    /\ DOMAIN state = DOMAIN Schema(wf)
    /\ \A f \in DOMAIN Schema(wf) :
           (~\E j \in 1..Len(executed) : executed[j].ok /\ f \in DOMAIN executed[j].update) =>
               state[f] = IF f \in DOMAIN InitialState(wf) THEN InitialState(wf)[f]
                          ELSE FieldDefault(f)
    /\ \A n \in SharedStateNodes(wf) : Reads(wf, n) \subseteq DOMAIN state
    /\ wf # "parallel" => Reads(wf, RouterName(wf)) \subseteq DOMAIN state
    /\ \A j \in 1..Len(executed) :
           /\ Reads(wf, executed[j].node) \subseteq DOMAIN executed[j].input
           /\ executed[j].node \in SharedStateNodes(wf) =>
                  DOMAIN executed[j].input = DOMAIN Schema(wf)
    /\ \A i \in 1..Len(frontier) :
           Reads(wf, frontier[i].node) \subseteq DOMAIN TaskInput(frontier[i], state)
    /\ status = "done" => DOMAIN outcome.state = DOMAIN Schema(wf)

\* the orchestrator-worker run, started from {"report_topic"} alone, has
\* executed synthesizer_node, which read worker_outputs; final_report, which
\* nothing had written, still held its default
C18_Witness ==
    /\ wf = "orchestrator"
    /\ DOMAIN InitialState(wf) = {"report_topic"}
    /\ executed # <<>>
    /\ Last(executed).node = "synthesizer_node"
    /\ Last(executed).ok
    /\ Last(executed).input.worker_outputs = <<"t2">>
    /\ Last(executed).input.final_report = ""
    /\ status = "running"
    /\ state.final_report = ""

-----------------------------------------------------------------------------
(* Evaluator-optimizer: the accepted joke and the use of feedback *)

\* C19: a final State of the evaluator-optimizer run has joke_quality "funny"
\* and its generated_joke is the joke the last evaluate_joke_node execution
\* graded, which the generate_joke_node execution right before it returned;
\* the first generate_joke_node execution prompts without feedback, and every
\* later one prompts with the feedback of the evaluation right before it
\* whenever that feedback is non-empty.
C19_AcceptedJokeAndFeedbackUse ==
    wf = "evaluator" =>
        /\ status = "done" =>
               LET n == Len(executed)
               IN  /\ n >= 2
                   /\ state.joke_quality = "funny"
                   /\ outcome.state.joke_quality = "funny"
                   /\ executed[n].node = "evaluate_joke_node"
                   /\ executed[n].resp.grade = "funny"
                   /\ executed[n - 1].node = "generate_joke_node"
                   /\ state.generated_joke = executed[n].input.generated_joke
                   /\ state.generated_joke = executed[n - 1].resp.content
                   /\ outcome.state.generated_joke = state.generated_joke
                   /\ executed[n].prompt =
                          "Evaluate the following joke and provide a grade (funny or not funny) and feedback: "
                          \o state.generated_joke
        /\ \A j \in EntriesOf("generate_joke_node") :
               executed[j].ok =>
                   IF j = 1
                   THEN executed[j].prompt = "Write a joke about Cats"
                   ELSE /\ executed[j - 1].node = "evaluate_joke_node"
                        /\ executed[j - 1].resp.feedback # "" =>
                               executed[j].prompt =
                                   "Write a joke about Cats considering this feedback: "
                                   \o executed[j - 1].resp.feedback

\* a run has returned after one rejection with feedback "fb": the second
\* generation prompted with it, and the joke it returned, "t2", not the first
\* joke "t1", is the one graded funny and returned
C19_Witness ==
    /\ wf = "evaluator"
    /\ status = "done"
    /\ Len(executed) = 4
    /\ executed[1].resp.content = "t1"
    /\ executed[2].resp.grade = "not funny" /\ executed[2].resp.feedback = "fb"
    /\ executed[3].prompt = "Write a joke about Cats considering this feedback: fb"
    /\ executed[3].resp.content = "t2"
    /\ state.generated_joke = "t2"
    /\ state.joke_quality = "funny"

-----------------------------------------------------------------------------
(* Orchestrator-worker: one branch per planned section *)

\* C20: assign_workers spawns one worker_node branch per element of
\* planned_sections, in list order: the frontier after orchestrator_node is
\* the N Sends whose i-th seed holds the i-th planned section; each branch
\* executes at most once, on exactly its seed, and once the step has ended
\* every branch has executed: no section is assigned twice or skipped.
C20_OneWorkerPerSectionInOrder ==
    wf = "orchestrator" =>
        LET plan == state.planned_sections
            N == Len(plan)
        IN  /\ step = 2 =>
                   /\ N >= 1
                   /\ Len(frontier) = N
                   /\ \A i \in 1..N :
                          /\ frontier[i] = Send("worker_node", [assigned_section |-> plan[i]])
                          /\ TaskInput(frontier[i], state) = [assigned_section |-> plan[i]]
            /\ \A j \in EntriesOf("worker_node") :
                   /\ executed[j].step = 2
                   /\ executed[j].task \in 1..N
                   /\ executed[j].input = [assigned_section |-> plan[executed[j].task]]
                   /\ \A k \in EntriesOf("worker_node") :
                          executed[k].task = executed[j].task => k = j
            /\ (step >= 3 \/ status = "done") =>
                   /\ {executed[j].task : j \in EntriesOf("worker_node")} = 1..N
                   /\ Cardinality(EntriesOf("worker_node")) = N

\* the plan names the same section first and last; three branches were
\* spawned and all ran, the second one first, each on the section of its
\* position
C20_Witness ==
    /\ wf = "orchestrator"
    /\ step = 3
    /\ Len(state.planned_sections) = 3
    /\ state.planned_sections[1] = state.planned_sections[3]
    /\ state.planned_sections[1] # state.planned_sections[2]
    /\ executed[2].task = 2
    /\ executed[2].input.assigned_section = state.planned_sections[2]
    /\ executed[3].task = 3
    /\ executed[4].task = 1
    /\ executed[4].input.assigned_section = state.planned_sections[1]

-----------------------------------------------------------------------------
(* Frame: what a node's execution leaves alone *)

\* the field of the initial State that carries the caller's input
InputField(w) ==
    CASE w = "parallel" -> "topic"
      [] w = "routing" -> "user_input"
      [] w = "orchestrator" -> "report_topic"
      [] w = "evaluator" -> "report_topic"

\* the input field holds its initial value and no node has returned it;
\* planned_sections, once orchestrator_node has written it, holds the plan
\* and neither worker_node nor synthesizer_node has returned it
C21_InputAndPlanKept ==
    /\ wf # "agent" =>
           /\ state[InputField(wf)] = InitialState(wf)[InputField(wf)]
           /\ WritersOf(InputField(wf)) = {}
           /\ \A j \in 1..Len(executed) :
                  executed[j].node # "worker_node" =>
                      executed[j].input[InputField(wf)] = InitialState(wf)[InputField(wf)]
           /\ status = "done" =>
                  outcome.state[InputField(wf)] = InitialState(wf)[InputField(wf)]
    /\ wf = "orchestrator" =>
           /\ \A j \in WritersOf("planned_sections") :
                  executed[j].node = "orchestrator_node"
           /\ (step >= 2 \/ status = "done") =>
                  state.planned_sections = AnswerOf("orchestrator_node").sections

\* a step changes a field of the State only if an update it merges holds it
C21_OnlyReturnedFieldsChange ==
    \A f \in DOMAIN state :
        state'[f] # state[f] =>
            \E i \in 1..Len(results) : results[i].done /\ f \in DOMAIN results[i].update

\* C21: a node's execution changes only the fields present in the partial
\* update it returns: topic, user_input and report_topic keep their initial
\* value in every reachable state, and planned_sections is left as
\* orchestrator_node wrote it by worker_node and synthesizer_node.
C21_NodesChangeOnlyReturnedFields ==
    /\ []C21_InputAndPlanKept
    /\ [][C21_OnlyReturnedFieldsChange]_vars

\* the orchestrator-worker run has returned after two workers and the
\* synthesizer ran: the plan and the topic are as they were
C21_Witness ==
    /\ wf = "orchestrator"
    /\ status = "done"
    /\ Len(state.planned_sections) = 2
    /\ state.planned_sections = executed[1].update.planned_sections
    /\ Cardinality(EntriesOf("worker_node")) = 2
    /\ Last(executed).node = "synthesizer_node"
    /\ state.final_report # ""
    /\ state.report_topic = "Scaling Laws in LLMs"

====
